---- MODULE Spec2Model ----
(***************************************************************************)
(* A model of the dataframe-cleaning transforms of piper / polarspiper     *)
(* (src/piper/piper.py, src/polarspiper/polarspiper.py).                   *)
(*                                                                         *)
(* A table is an ordered sequence of columns; a column is a name, a dtype  *)
(* and a sequence of cells.  The engine primitives the transforms call     *)
(* (filter, column selection, strict parsing and casting, arithmetic,      *)
(* deferred execution of a LazyFrame) are modelled by what they compute,   *)
(* including the exception they raise.                                     *)
(***************************************************************************)
EXTENDS Integers, Sequences, FiniteSets, TLC

\* Bounds of the model: the largest table drawn as an input.
MaxRows == 2
MaxCols == 2

\* ------------------------------------------------------------------------
\* Small helpers
\* ------------------------------------------------------------------------

Iota(n) == [i \in 1..n |-> i]

Range(s) == {s[i] : i \in DOMAIN s}

RECURSIVE Gcd(_, _)
Gcd(a, b) == IF b = 0 THEN a ELSE Gcd(b, a % b)

Abs(n) == IF n < 0 THEN -n ELSE n

RECURSIVE Pow(_, _)
Pow(b, k) == IF k = 0 THEN 1 ELSE b * Pow(b, k - 1)

\* ------------------------------------------------------------------------
\* Cells.  A number is the exact rational (n / d) * 2^e with n, d odd (or
\* n = 0): 2^31 itself is Num(1, 1, 31).  Every number of the model is
\* exactly representable as a 64-bit float, so no rounding takes place.
\* ------------------------------------------------------------------------

NULL == [t |-> "null"]

IsNull(c) == c.t = "null"

StrCell(s) == [t |-> "str", s |-> s]

RECURSIVE Norm(_, _, _)
Norm(n, d, e) ==
    IF n = 0 THEN [t |-> "num", n |-> 0, d |-> 1, e |-> 0]
    ELSE IF n % 2 = 0 THEN Norm(n \div 2, d, e + 1)
    ELSE IF d % 2 = 0 THEN Norm(n, d \div 2, e - 1)
    ELSE LET g == Gcd(Abs(n), d)
         IN  [t |-> "num", n |-> n \div g, d |-> d \div g, e |-> e]

\* ------------------------------------------------------------------------
\* Strings are sequences of lexemes: single characters for numeric text,
\* whole fields for timestamps.
\* ------------------------------------------------------------------------

Digits == <<"0", "1", "2", "3", "4", "5", "6", "7", "8", "9">>

IsDigit(c) == c \in Range(Digits)

DigitVal(c) == (CHOOSE i \in DOMAIN Digits : Digits[i] = c) - 1

RECURSIVE DigitsValue(_)
DigitsValue(s) ==
    IF s = <<>> THEN 0
    ELSE 10 * DigitsValue(SubSeq(s, 1, Len(s) - 1)) + DigitVal(s[Len(s)])

\* str.replace_all(",", "")
ReplaceAllCommas(s) == SelectSeq(s, LAMBDA c : c # ",")

\* Strict parse of a string as a 64-bit integer: [ok, v].
ParseInt(s) ==
    IF s # <<>> /\ \A i \in DOMAIN s : IsDigit(s[i])
    THEN [ok |-> TRUE, v |-> Norm(DigitsValue(s), 1, 0)]
    ELSE [ok |-> FALSE, v |-> NULL]

\* Strict parse of a string as a 64-bit float: digits with at most one ".".
ParseFloat(s) ==
    LET dots == SelectSeq(s, LAMBDA c : c = ".")
        digs == SelectSeq(s, LAMBDA c : c # ".")
        frac == IF dots = <<>> THEN 0
                ELSE Len(s) - (CHOOSE i \in DOMAIN s : s[i] = ".")
    IN  IF digs # <<>> /\ Len(dots) <= 1 /\ \A i \in DOMAIN digs : IsDigit(digs[i])
        THEN [ok |-> TRUE, v |-> Norm(DigitsValue(digs), Pow(10, frac), 0)]
        ELSE [ok |-> FALSE, v |-> NULL]

\* The three formats try_to_datetime tries, in the order it tries them.
Formats ==
    << <<"%B", " ", "%d", ",", " ", "%Y", ",", " ", "%I", ":", "%M", " ", "%p">>,
       <<"%Y", "-", "%m", "-", "%d", " ", "%H", ":", "%M", ":", "%S">>,
       <<"%Y", "-", "%m", "-", "%d", "T", "%H", ":", "%M", ":", "%S", "%.f", "Z">> >>

\* The fields a directive accepts.
FieldsOf(item) ==
    CASE item = "%B"  -> {"February"}
      [] item = "%d"  -> {"01", "22"}
      [] item = "%Y"  -> {"2023"}
      [] item = "%m"  -> {"01", "02"}
      [] item = "%I"  -> {"10", "11"}
      [] item = "%H"  -> {"00", "10", "11"}
      [] item = "%M"  -> {"00", "56"}
      [] item = "%S"  -> {"00"}
      [] item = "%p"  -> {"AM", "PM"}
      [] item = "%.f" -> {".5"}
      [] OTHER        -> {}

IsDirective(item) == FieldsOf(item) # {}

\* Strict strptime of one string under one format: [ok, v].
ParseDatetime(s, fmt) ==
    IF /\ Len(s) = Len(fmt)
       /\ \A i \in DOMAIN fmt :
            IF IsDirective(fmt[i]) THEN s[i] \in FieldsOf(fmt[i]) ELSE s[i] = fmt[i]
    THEN [ok |-> TRUE,
          v  |-> [t |-> "dt",
                  f |-> [i \in DOMAIN fmt |->
                           IF IsDirective(fmt[i]) THEN <<fmt[i], s[i]>> ELSE <<>>]]]
    ELSE [ok |-> FALSE, v |-> NULL]

\* ------------------------------------------------------------------------
\* Tables
\* ------------------------------------------------------------------------

Column(name, dtype, vals) == [name |-> name, dtype |-> dtype, vals |-> vals]

Table(cols) == [cols |-> cols]

\* DataFrame.height: a frame without columns has no rows.
Height(df) == IF df.cols = <<>> THEN 0 ELSE Len(df.cols[1].vals)

\* DataFrame.columns
ColumnNames(df) == [i \in DOMAIN df.cols |-> df.cols[i].name]

ColumnOf(df, name) == df.cols[CHOOSE i \in DOMAIN df.cols : df.cols[i].name = name]

\* Series.null_count
NullCount(col) == Len(SelectSeq(col.vals, IsNull))

\* DataFrame.clear(): the same schema, no rows.
Clear(df) == Table([i \in DOMAIN df.cols |-> [df.cols[i] EXCEPT !.vals = <<>>]])

\* df[names] with a list of column names.  The empty list is an empty row
\* selection for DataFrame.__getitem__: it returns df.clear().
GetItem(df, names) ==
    IF names = <<>> THEN Clear(df)
    ELSE Table([k \in DOMAIN names |-> ColumnOf(df, names[k])])

\* df.filter(mask): the rows at the kept indices, in order.
TakeRows(df, idx) ==
    Table([i \in DOMAIN df.cols |->
             [df.cols[i] EXCEPT !.vals = [k \in DOMAIN idx |-> df.cols[i].vals[idx[k]]]]])

\* ------------------------------------------------------------------------
\* Engine: expressions and their strict evaluation on a table.  An
\* evaluation either returns a table or raises one of the engine's
\* exceptions.
\* ------------------------------------------------------------------------

Ok(df) == [exc |-> "none", df |-> df]

Raise(e, df) == [exc |-> e, df |-> df]

ReplaceColumn(df, col) ==
    Table([i \in DOMAIN df.cols |->
             IF df.cols[i].name = col.name THEN col ELSE df.cols[i]])

\* pl.col(col).str.to_datetime(format=fmt): strict, nulls stay null.  A
\* string expression on a column that is not String is a SchemaError; a
\* value that does not parse is an InvalidOperationError.
ExecToDatetime(df, name, fmt) ==
    LET c == ColumnOf(df, name)
    IN  IF c.dtype # "String" THEN Raise("SchemaError", df)
        ELSE IF \A i \in DOMAIN c.vals :
                   IsNull(c.vals[i]) \/ ParseDatetime(c.vals[i].s, fmt).ok
        THEN Ok(ReplaceColumn(df,
                Column(name, "Datetime",
                       [i \in DOMAIN c.vals |->
                          IF IsNull(c.vals[i]) THEN NULL
                          ELSE ParseDatetime(c.vals[i].s, fmt).v])))
        ELSE Raise("InvalidOperationError", df)

ParseAs(dtype, s) == IF dtype = "Int64" THEN ParseInt(s) ELSE ParseFloat(s)

\* Strict cast of a column to Int64 or Float64.
CastColumn(df, c, dtype) ==
    IF c.dtype = "String"
    THEN IF \A i \in DOMAIN c.vals :
               IsNull(c.vals[i]) \/ ParseAs(dtype, c.vals[i].s).ok
         THEN Ok(ReplaceColumn(df,
                 Column(c.name, dtype,
                        [i \in DOMAIN c.vals |->
                           IF IsNull(c.vals[i]) THEN NULL
                           ELSE ParseAs(dtype, c.vals[i].s).v])))
         ELSE Raise("InvalidOperationError", df)
    ELSE IF c.dtype \in {"Int64", "Float64"} /\ dtype = "Float64"
    THEN Ok(ReplaceColumn(df, [c EXCEPT !.dtype = dtype]))
    ELSE Raise("InvalidOperationError", df)

\* pl.col(col).str.replace_all(",", "").cast(dtype)
ExecReplaceCast(df, name, dtype) ==
    LET c == ColumnOf(df, name)
    IN  IF c.dtype # "String" THEN Raise("SchemaError", df)
        ELSE CastColumn(df,
                 [c EXCEPT !.vals = [i \in DOMAIN c.vals |->
                     IF IsNull(c.vals[i]) THEN NULL
                     ELSE StrCell(ReplaceAllCommas(c.vals[i].s))]],
                 dtype)

\* pl.col(col).cast(dtype)
ExecCast(df, name, dtype) == CastColumn(df, ColumnOf(df, name), dtype)

\* The scaling with 2**32 for 2**31.
DegreesOfFullCircle(v) == IF IsNull(v) THEN NULL ELSE Norm(v.n * 180, v.d, v.e - 32)

\* v * 180 / 2**31
Degrees(v) == IF IsNull(v) THEN NULL ELSE Norm(v.n * 180, v.d, v.e - 31)

\* pl.col(cols) * 180 / 2**31 over a list of column names: arithmetic on
\* a column that is not numeric is an InvalidOperationError.
ExecScale(df, names) ==
    IF \E k \in DOMAIN names : ColumnOf(df, names[k]).dtype \notin {"Int64", "Float64"}
    THEN Raise("InvalidOperationError", df)
    ELSE Ok(Table([i \in DOMAIN df.cols |->
                IF df.cols[i].name \in Range(names)
                THEN Column(df.cols[i].name, "Float64",
                            [r \in DOMAIN df.cols[i].vals |-> Degrees(df.cols[i].vals[r])])
                ELSE df.cols[i]]))

\* _df.select(names) with a non-empty list of existing column names.
ExecSelect(df, names) == Ok(Table([k \in DOMAIN names |-> ColumnOf(df, names[k])]))

ToDatetimeExpr(name, fmt) == [op |-> "to_datetime", col |-> name, fmt |-> fmt]

ReplaceCastExpr(name, dtype) == [op |-> "replace_cast", col |-> name, dtype |-> dtype]

CastExpr(name, dtype) == [op |-> "cast", col |-> name, dtype |-> dtype]

ScaleExpr(names) == [op |-> "scale", cols |-> names]

SelectExpr(names) == [op |-> "select", cols |-> names]

Exec(expr, df) ==
    CASE expr.op = "to_datetime"  -> ExecToDatetime(df, expr.col, expr.fmt)
      [] expr.op = "replace_cast" -> ExecReplaceCast(df, expr.col, expr.dtype)
      [] expr.op = "cast"         -> ExecCast(df, expr.col, expr.dtype)
      [] expr.op = "scale"        -> ExecScale(df, expr.cols)
      [] expr.op = "select"       -> ExecSelect(df, expr.cols)

\* ------------------------------------------------------------------------
\* Frames.  A DataFrame evaluates an expression when it is given; a
\* LazyFrame records it and evaluates the recorded plan on collect().
\* ------------------------------------------------------------------------

Eager(df) == [kind |-> "eager", df |-> df, plan |-> <<>>]

Lazy(df) == [kind |-> "lazy", df |-> df, plan |-> <<>>]

\* _df.with_columns(expr) / _df.select(expr): [exc, frame]
\* A DataFrame holds the table the evaluation returned `r`, or is left as
\* it was when the evaluation raised.
Evaluated(frame, r) ==
    [exc   |-> r.exc,
     frame |-> IF r.exc = "none" THEN [frame EXCEPT !.df = r.df] ELSE frame]

WithColumns(frame, expr) ==
    IF frame.kind = "eager"
    THEN Evaluated(frame, Exec(expr, frame.df))
    ELSE [exc |-> "none", frame |-> [frame EXCEPT !.plan = Append(@, expr)]]

RECURSIVE RunPlan(_, _), RunRest(_, _)
RunPlan(df, plan) ==
    IF plan = <<>> THEN Ok(df) ELSE RunRest(Exec(plan[1], df), Tail(plan))

RunRest(r, rest) == IF r.exc = "none" THEN RunPlan(r.df, rest) ELSE r

\* LazyFrame.collect() (the identity on a DataFrame): [exc, df]
Collect(frame) == RunPlan(frame.df, frame.plan)

\* The dtype an expression gives column `name`, whose dtype was `dtype`.
DtypeAfter(dtype, expr, name) ==
    CASE expr.op = "to_datetime" /\ expr.col = name  -> "Datetime"
      [] expr.op \in {"replace_cast", "cast"} /\ expr.col = name -> expr.dtype
      [] expr.op = "scale" /\ name \in Range(expr.cols) -> "Float64"
      [] OTHER -> dtype

RECURSIVE PlanDtype(_, _, _)
PlanDtype(dtype, plan, name) ==
    IF plan = <<>> THEN dtype
    ELSE PlanDtype(DtypeAfter(dtype, plan[1], name), Tail(plan), name)

\* _df[col].dtype of a DataFrame, _df.collect_schema()[col] of a LazyFrame
SchemaDtype(frame, name) ==
    PlanDtype(ColumnOf(frame.df, name).dtype, frame.plan, name)

\* ------------------------------------------------------------------------
\* The transforms.  A transform returns [exc, frame] (and `success` for the
\* two try_to_ functions); exc # "none" is an exception leaving the call.
\* ------------------------------------------------------------------------

\* "_lat" in col or "_lon" in col
Contains(name, sub) ==
    \E i \in 1..(Len(name) - Len(sub) + 1) : SubSeq(name, i, i + Len(sub) - 1) = sub

IsSemicircleName(name) ==
    Contains(name, <<"_", "l", "a", "t">>) \/ Contains(name, <<"_", "l", "o", "n">>)

\* A filter that drops every row holding a null.
drop_rows_with_any_null(df) ==
    TakeRows(df, SelectSeq(Iota(Height(df)),
                           LAMBDA r : ~(\E i \in DOMAIN df.cols : IsNull(df.cols[i].vals[r]))))

\* _df.filter(~pl.all_horizontal(pl.all().is_null()))
drop_rows_that_are_all_null(df) ==
    TakeRows(df, SelectSeq(Iota(Height(df)),
                           LAMBDA r : ~(\A i \in DOMAIN df.cols : IsNull(df.cols[i].vals[r]))))

\* _df[[s.name for s in _df if not (s.null_count() == _df.height)]]
drop_columns_that_are_all_null(df) ==
    LET kept == SelectSeq(df.cols, LAMBDA s : ~(NullCount(s) = Height(df)))
    IN  GetItem(df, [k \in DOMAIN kept |-> kept[k].name])

\* cols = [col for col in _df.columns if "_lat" in col or "_lon" in col]
\* return _df.with_columns(pl.col(cols) * 180 / 2**31)
semicircle_to_degrees(frame) ==
    WithColumns(frame, ScaleExpr(SelectSeq(ColumnNames(frame.df), IsSemicircleName)))

\* The except clauses of try_to_datetime and try_to_numeric.
Caught == {"InvalidOperationError", "ComputeError"}

\* try_to_datetime: [exc, frame, success].  try_to_datetime_from is the
\* loop from the i-th format on, datetime_attempt the try statement with
\* `r` what with_columns did.
RECURSIVE try_to_datetime_from(_, _, _), datetime_attempt(_, _, _, _)
try_to_datetime_from(frame, col, i) ==
    IF i > Len(Formats) THEN [exc |-> "none", frame |-> frame, success |-> FALSE]
    ELSE datetime_attempt(frame, col, i, WithColumns(frame, ToDatetimeExpr(col, Formats[i])))

datetime_attempt(frame, col, i, r) ==
    IF r.exc = "none" THEN [exc |-> "none", frame |-> r.frame, success |-> TRUE]
    ELSE IF r.exc \in Caught THEN try_to_datetime_from(frame, col, i + 1)
    ELSE [exc |-> r.exc, frame |-> frame, success |-> FALSE]

try_to_datetime(frame, col) == try_to_datetime_from(frame, col, 1)

\* try_to_numeric: [exc, frame, success]; numeric_attempt is its try
\* statement with `r` what with_columns did.
numeric_attempt(frame, r) ==
    IF r.exc = "none" THEN [exc |-> "none", frame |-> r.frame, success |-> TRUE]
    ELSE IF r.exc \in Caught THEN [exc |-> "none", frame |-> frame, success |-> FALSE]
    ELSE [exc |-> r.exc, frame |-> frame, success |-> FALSE]

\* try_to_numeric without the removal of the commas.
try_to_numeric_keeping_commas(frame, col, dtype) ==
    numeric_attempt(frame, WithColumns(frame, CastExpr(col, dtype)))

try_to_numeric(frame, col, dtype) ==
    numeric_attempt(frame, WithColumns(frame, ReplaceCastExpr(col, dtype)))

Outcome(r) == [exc |-> r.exc, frame |-> r.frame]

\* The body of utf8_promotion's loop for one column, [exc, frame]: the
\* dtype test, then the three attempts, each entered only when the one
\* before returned without success.
after_int_attempt(col, n) ==
    IF n.exc # "none" \/ n.success THEN Outcome(n)
    ELSE Outcome(try_to_numeric(n.frame, col, "Float64"))

\* The loop body without the `continue` after a successful timestamp parse.
after_datetime_attempt_without_continue(col, d) ==
    IF d.exc # "none" THEN Outcome(d)
    ELSE after_int_attempt(col, try_to_numeric(d.frame, col, "Int64"))

after_datetime_attempt(col, d) ==
    IF d.exc # "none" \/ d.success THEN Outcome(d)
    ELSE after_int_attempt(col, try_to_numeric(d.frame, col, "Int64"))

promote_column(frame, col) ==
    IF SchemaDtype(frame, col) # "String" THEN [exc |-> "none", frame |-> frame]
    ELSE after_datetime_attempt(col, try_to_datetime(frame, col))

\* for col in _df.columns: ...
RECURSIVE utf8_promotion_loop(_, _), utf8_promotion_rest(_, _)
utf8_promotion_loop(frame, cols) ==
    IF cols = <<>> THEN [exc |-> "none", frame |-> frame]
    ELSE utf8_promotion_rest(promote_column(frame, cols[1]), Tail(cols))

utf8_promotion_rest(r, rest) ==
    IF r.exc # "none" THEN r ELSE utf8_promotion_loop(r.frame, rest)

utf8_promotion(frame) == utf8_promotion_loop(frame, ColumnNames(frame.df))

\* try_convert_dtypes_to_float_if_possible: only InvalidOperationError is
\* caught.
RECURSIVE try_convert_loop(_, _), try_convert_rest(_, _, _)
try_convert_loop(frame, cols) ==
    IF cols = <<>> THEN [exc |-> "none", frame |-> frame]
    ELSE try_convert_rest(frame, WithColumns(frame, CastExpr(cols[1], "Float64")), Tail(cols))

try_convert_rest(frame, r, rest) ==
    IF r.exc = "none" THEN try_convert_loop(r.frame, rest)
    ELSE IF r.exc = "InvalidOperationError" THEN try_convert_loop(frame, rest)
    ELSE [exc |-> r.exc, frame |-> frame]

try_convert_dtypes_to_float_if_possible(frame) ==
    try_convert_loop(frame, ColumnNames(frame.df))

\* null_count.transpose(include_header=True).sort("column_0"): the sort is
\* on the null count alone and does not maintain the order of equal
\* elements, so it may return any order of the columns in which the null
\* counts do not decrease.
IsPermutation(p, n) == /\ DOMAIN p = 1..n
                       /\ \A i, j \in 1..n : p[i] = p[j] => i = j

\* The orders of a descending sort.
DescendingOrders(counts) ==
    {p \in [DOMAIN counts -> DOMAIN counts] :
        /\ IsPermutation(p, Len(counts))
        /\ \A i, j \in DOMAIN counts : i < j => counts[p[i]] >= counts[p[j]]}

SortedOrders(counts) ==
    {p \in [DOMAIN counts -> DOMAIN counts] :
        /\ IsPermutation(p, Len(counts))
        /\ \A i, j \in DOMAIN counts : i < j => counts[p[i]] <= counts[p[j]]}

\* sort_columns_by_null_count with the order `p` the sort returned; the
\* LazyFrame's null counts are collected first.
sort_columns_by_null_count(frame, p) ==
    LET names == ColumnNames(frame.df)
    IN  WithColumns(frame, SelectExpr([k \in DOMAIN p |-> names[p[k]]]))

NullCounts(frame) ==
    LET c == Collect(frame) IN [i \in DOMAIN c.df.cols |-> NullCount(c.df.cols[i])]

\* The pipeline with the scaling before the promotion.
MagicPipelineScalingFirst ==
    <<"drop_rows_that_are_all_null", "drop_columns_that_are_all_null",
      "semicircle_to_degrees", "utf8_promotion">>

\* magic: the transforms piped, in this order.
MagicPipeline ==
    <<"drop_rows_that_are_all_null", "drop_columns_that_are_all_null",
      "utf8_promotion", "semicircle_to_degrees">>

\* _df.pipe(f): [exc, frame]
Pipe(frame, f) ==
    CASE f = "drop_rows_that_are_all_null" ->
            [exc |-> "none", frame |-> Eager(drop_rows_that_are_all_null(frame.df))]
      [] f = "drop_columns_that_are_all_null" ->
            [exc |-> "none", frame |-> Eager(drop_columns_that_are_all_null(frame.df))]
      [] f = "utf8_promotion" -> utf8_promotion(frame)
      [] f = "semicircle_to_degrees" -> semicircle_to_degrees(frame)

\* ------------------------------------------------------------------------
\* Inputs: the tables a call is made on.
\* ------------------------------------------------------------------------

\* Column names: two that semicircle_to_degrees matches and one it does not.
NamePool ==
    << <<"b", "_", "l", "a", "t">>, <<"a", "_", "l", "o", "n">>, <<"c">> >>

Semicircle == Norm(1, 1, 31)    \* 2^31

\* "February 22, 2023, 11:56 AM"
StampLong ==
    <<"February", " ", "22", ",", " ", "2023", ",", " ", "11", ":", "56", " ", "AM">>

\* "2023-01-01 10:00:00"
StampPlain == <<"2023", "-", "01", "-", "01", " ", "10", ":", "00", ":", "00">>

\* "2023-01-01T10:00:00.5Z"
StampIso ==
    <<"2023", "-", "01", "-", "01", "T", "10", ":", "00", ":", "00", ".5", "Z">>

\* The strings of a string column: "1,5", "1.5", "ab" and one timestamp
\* per format.
Strings ==
    {<<"1", ",", "5">>, <<"1", ".", "5">>, <<"a", "b">>, StampLong, StampPlain, StampIso}

PlainCells(dtype) ==
    IF dtype = "Int64" THEN {NULL, Semicircle} ELSE {NULL, StrCell(<<"1", ",", "5">>)}

NameLists(w) ==
    {n \in [1..w -> Range(NamePool)] : \A i, j \in 1..w : n[i] = n[j] => i = j}

\* Columns of h rows without names: a dtype and its cells.
PlainData(h) ==
    UNION {{[dtype |-> d, vals |-> v] : v \in [1..h -> PlainCells(d)]} : d \in {"Int64", "String"}}

StringData(h) ==
    {[dtype |-> "String", vals |-> v] : v \in [1..h -> {NULL} \cup {StrCell(s) : s \in Strings}]}

MakeTable(names, data) ==
    Table([i \in DOMAIN names |-> Column(names[i], data[i].dtype, data[i].vals)])

Int64Data(h) == {x \in PlainData(h) : x.dtype = "Int64"}

\* ------------------------------------------------------------------------
\* The state machine: one call of one transform on an input table.
\* ------------------------------------------------------------------------

VARIABLES
    input,      \* the table the call is made on
    pc,         \* "ready", "magic" (inside magic's pipeline) or "done"
    call,       \* the call made: [op, kind, col, dtype]
    out,        \* what the call returned or raised: [exc, frame, success]
    applied     \* the transforms magic has piped so far

vars == <<input, pc, call, out, applied>>

Kinds == {"eager", "lazy"}

FrameOf(kind, df) == IF kind = "eager" THEN Eager(df) ELSE Lazy(df)

Call(op, kind, col, dtype) == [op |-> op, kind |-> kind, col |-> col, dtype |-> dtype]

Returned(r) == [exc |-> r.exc, frame |-> r.frame, success |-> FALSE]

\* Before the call: the table t is given.
Given(t) ==
    /\ input = t
    /\ pc = "ready"
    /\ call = Call("none", "eager", <<>>, "")
    /\ out = [exc |-> "none", frame |-> Eager(t), success |-> FALSE]
    /\ applied = <<>>

\* Tables of up to MaxCols columns over the plain cells: every pattern of
\* nulls, with every assignment of names.
InitPlain ==
    \E h \in 0..MaxRows, w \in 1..MaxCols :
        \E n \in NameLists(w), d \in [1..w -> PlainData(h)] : Given(MakeTable(n, d))

\* Tables with one string column over all the strings, alone or beside one
\* Int64 column.
InitString ==
    \E h \in 0..MaxRows :
        \E d \in StringData(h) :
            \/ \E n \in NameLists(1) : Given(MakeTable(n, <<d>>))
            \/ \E n \in NameLists(2), e \in Int64Data(h) : Given(MakeTable(n, <<d, e>>))
            \/ \E n \in NameLists(2), e \in Int64Data(h) : Given(MakeTable(n, <<e, d>>))

Init == InitPlain \/ InitString

Finish(c, r) ==
    /\ pc = "ready"
    /\ pc' = "done"
    /\ call' = c
    /\ out' = r
    /\ UNCHANGED <<input, applied>>

DropRows ==
    Finish(Call("drop_rows_that_are_all_null", "eager", <<>>, ""),
           [exc |-> "none", frame |-> Eager(drop_rows_that_are_all_null(input)),
            success |-> FALSE])

DropColumns ==
    Finish(Call("drop_columns_that_are_all_null", "eager", <<>>, ""),
           [exc |-> "none", frame |-> Eager(drop_columns_that_are_all_null(input)),
            success |-> FALSE])

SemicircleToDegrees ==
    \E k \in Kinds :
        Finish(Call("semicircle_to_degrees", k, <<>>, ""),
               Returned(semicircle_to_degrees(FrameOf(k, input))))

Utf8Promotion ==
    \E k \in Kinds :
        Finish(Call("utf8_promotion", k, <<>>, ""),
               Returned(utf8_promotion(FrameOf(k, input))))

TryConvertDtypesToFloatIfPossible ==
    \E k \in Kinds :
        Finish(Call("try_convert_dtypes_to_float_if_possible", k, <<>>, ""),
               Returned(try_convert_dtypes_to_float_if_possible(FrameOf(k, input))))

TryToDatetime ==
    \E k \in Kinds, c \in Range(ColumnNames(input)) :
        Finish(Call("try_to_datetime", k, c, ""), try_to_datetime(FrameOf(k, input), c))

TryToNumeric ==
    \E k \in Kinds, c \in Range(ColumnNames(input)), d \in {"Int64", "Float64"} :
        Finish(Call("try_to_numeric", k, c, d), try_to_numeric(FrameOf(k, input), c, d))

SortColumnsByNullCount ==
    \E k \in Kinds :
        \E p \in SortedOrders(NullCounts(FrameOf(k, input))) :
            Finish(Call("sort_columns_by_null_count", k, <<>>, ""),
                   Returned(sort_columns_by_null_count(FrameOf(k, input), p)))

\* magic is entered, then pipes its transforms one after the other; an
\* exception in one of them leaves magic.
MagicCall ==
    /\ pc = "ready"
    /\ pc' = "magic"
    /\ call' = Call("magic", "eager", <<>>, "")
    /\ UNCHANGED <<input, out, applied>>

MagicPipe ==
    /\ pc = "magic"
    /\ \E r \in {Pipe(out.frame, MagicPipeline[Len(applied) + 1])} :
           /\ out' = Returned(r)
           /\ applied' = Append(applied, MagicPipeline[Len(applied) + 1])
           /\ pc' = IF r.exc # "none" \/ Len(applied) + 1 = Len(MagicPipeline)
                    THEN "done" ELSE "magic"
    /\ UNCHANGED <<input, call>>

Next ==
    \/ DropRows
    \/ DropColumns
    \/ SemicircleToDegrees
    \/ Utf8Promotion
    \/ TryConvertDtypesToFloatIfPossible
    \/ TryToDatetime
    \/ TryToNumeric
    \/ SortColumnsByNullCount
    \/ MagicCall
    \/ MagicPipe

Spec == Init /\ [][Next]_vars

\* The pruning and reordering transforms.
NextPrune == DropRows \/ DropColumns \/ SortColumnsByNullCount

SpecPrune == Init /\ [][NextPrune]_vars

\* The promotion of string columns and the float sweep.
NextPromote ==
    \/ Utf8Promotion
    \/ TryToDatetime
    \/ TryToNumeric
    \/ TryConvertDtypesToFloatIfPossible

SpecPromote == Init /\ [][NextPromote]_vars

\* magic and the scaling it ends with.
NextMagic == MagicCall \/ MagicPipe \/ SemicircleToDegrees

SpecMagic == Init /\ [][NextMagic]_vars

\* ------------------------------------------------------------------------
\* Properties
\* ------------------------------------------------------------------------

Done(op) == pc = "done" /\ call.op = op

\* What the caller holds once the returned frame is realised: [exc, df].
Realised == IF out.exc # "none" THEN Raise(out.exc, input) ELSE Collect(out.frame)

Result == out.frame.df

AllNullRow(df, r) == \A i \in DOMAIN df.cols : IsNull(df.cols[i].vals[r])

AllNullColumn(c) == \A r \in DOMAIN c.vals : IsNull(c.vals[r])

RowOf(df, r) == [i \in DOMAIN df.cols |-> df.cols[i].vals[r]]

Schema(df) == [i \in DOMAIN df.cols |-> <<df.cols[i].name, df.cols[i].dtype>>]

\* ---- C1 ----------------------------------------------------------------

\* magic(T) written as the composition of the four transforms.
Composed ==
    LET c == utf8_promotion(Eager(drop_columns_that_are_all_null(
                                    drop_rows_that_are_all_null(input))))
    IN  IF c.exc # "none" THEN Returned(c) ELSE Returned(semicircle_to_degrees(c.frame))

FourInOrder ==
    <<"drop_rows_that_are_all_null", "drop_columns_that_are_all_null",
      "utf8_promotion", "semicircle_to_degrees">>

\* C1: magic(T) is semicircle_to_degrees(utf8_promotion(
\* drop_columns_that_are_all_null(drop_rows_that_are_all_null(T)))): at every
\* point of magic the transforms applied so far are the first ones of that
\* list, each once and in that order, nothing else is applied, and what
\* magic returns (or raises) is what the composition returns (or raises).
C1_MagicIsComposition ==
    /\ call.op = "magic" => applied = SubSeq(FourInOrder, 1, Len(applied))
    /\ Done("magic") =>
         /\ out = Composed
         /\ out.exc = "none" => applied = FourInOrder

\* A call of magic in which each of the four transforms changed the table:
\* a row was dropped, a string column became Int64 and a semicircle column
\* was scaled.
C1_Witness ==
    /\ Done("magic") /\ out.exc = "none"
    /\ Height(Result) < Height(input)
    /\ \E i \in DOMAIN Result.cols :
         /\ ~IsSemicircleName(Result.cols[i].name)
         /\ ColumnOf(input, Result.cols[i].name).dtype = "String"
         /\ Result.cols[i].dtype = "Int64"
    /\ \E i \in DOMAIN Result.cols :
         /\ IsSemicircleName(Result.cols[i].name)
         /\ Norm(180, 1, 0) \in Range(Result.cols[i].vals)

\* ---- C2 ----------------------------------------------------------------

KeptRows(df) == {r \in 1..Height(df) : ~AllNullRow(df, r)}

\* The k-th smallest element of a set of row indices.
Nth(S, k) == CHOOSE r \in S : Cardinality({q \in S : q < r}) = k - 1

\* C2: drop_rows_that_are_all_null removes exactly the rows in which every
\* value is null: the result has the same columns (names, dtypes, order),
\* no more rows than the input, and its rows are the rows of the input
\* holding a non-null value, in their original order.
C2_DropRowsExact ==
    Done("drop_rows_that_are_all_null") =>
        /\ out.exc = "none"
        /\ Schema(Result) = Schema(input)
        /\ Height(Result) <= Height(input)
        /\ Height(Result) = Cardinality(KeptRows(input))
        /\ \A k \in 1..Height(Result) :
             RowOf(Result, k) = RowOf(input, Nth(KeptRows(input), k))

\* The all-null first row was removed and the second row, which holds a
\* null beside a value, was kept.
C2_Witness ==
    /\ Done("drop_rows_that_are_all_null")
    /\ Height(input) = 2 /\ Height(Result) = 1
    /\ ~AllNullRow(input, 2)
    /\ \E i \in DOMAIN input.cols : IsNull(input.cols[i].vals[2])

\* ---- C3 ----------------------------------------------------------------

\* The columns of df whose null count differs from the row count, in order.
NotAllNull(df) == SelectSeq(df.cols, LAMBDA c : NullCount(c) # Height(df))

\* C3: drop_columns_that_are_all_null removes exactly the columns whose null
\* count equals the row count (also when there are no rows), and the
\* remaining columns keep their order and values.
C3_DropColumnsExact ==
    Done("drop_columns_that_are_all_null") => Result.cols = NotAllNull(input)

\* ---- C4 ----------------------------------------------------------------

RowPreserving ==
    {"drop_columns_that_are_all_null", "semicircle_to_degrees", "utf8_promotion",
     "try_to_datetime", "try_to_numeric", "try_convert_dtypes_to_float_if_possible",
     "sort_columns_by_null_count"}

\* C4: every transform but drop_rows_that_are_all_null returns a table with
\* as many rows as its input, also when every column of the input is
\* all-null.
C4_RowCountPreserved ==
    (pc = "done" /\ call.op \in RowPreserving /\ Realised.exc = "none") =>
        Height(Realised.df) = Height(input)

\* ---- C5 ----------------------------------------------------------------

Parses(c, fmt) ==
    \A r \in DOMAIN c.vals : IsNull(c.vals[r]) \/ ParseDatetime(c.vals[r].s, fmt).ok

Converts(c, dtype) ==
    \A r \in DOMAIN c.vals :
        IsNull(c.vals[r]) \/ ParseAs(dtype, ReplaceAllCommas(c.vals[r].s)).ok

Converted(c, f(_)) ==
    [r \in DOMAIN c.vals |-> IF IsNull(c.vals[r]) THEN NULL ELSE f(c.vals[r].s)]

AsDatetime(c, fmt) ==
    Column(c.name, "Datetime", Converted(c, LAMBDA s : ParseDatetime(s, fmt).v))

AsNumeric(c, dtype) ==
    Column(c.name, dtype, Converted(c, LAMBDA s : ParseAs(dtype, ReplaceAllCommas(s)).v))

FirstFormat(c) == CHOOSE k \in DOMAIN Formats :
                      Parses(c, Formats[k]) /\ \A j \in 1..(k - 1) : ~Parses(c, Formats[j])

\* The column utf8_promotion is to leave in place of column c.
Promoted(c) ==
    IF c.dtype # "String" THEN c
    ELSE IF \E k \in DOMAIN Formats : Parses(c, Formats[k])
    THEN AsDatetime(c, Formats[FirstFormat(c)])
    ELSE IF Converts(c, "Int64") THEN AsNumeric(c, "Int64")
    ELSE IF Converts(c, "Float64") THEN AsNumeric(c, "Float64")
    ELSE c

StringColumns(df) == SelectSeq(ColumnNames(df), LAMBDA n : ColumnOf(df, n).dtype = "String")

TryConverts(c) ==
    IF call.op = "try_to_datetime"
    THEN \E k \in DOMAIN Formats : Parses(c, Formats[k])
    ELSE Converts(c, call.dtype)

TryConverted(c) ==
    IF call.op = "try_to_datetime"
    THEN AsDatetime(c, Formats[FirstFormat(c)])
    ELSE AsNumeric(c, call.dtype)

TryContract ==
    /\ out.exc = "none"
    /\ out.success = TryConverts(ColumnOf(input, call.col))
    /\ out.success =>
         Result.cols = [i \in DOMAIN input.cols |->
                          IF input.cols[i].name = call.col
                          THEN TryConverted(input.cols[i]) ELSE input.cols[i]]
    /\ ~out.success => Result = input

EagerTry == /\ pc = "done" /\ call.kind = "eager"
            /\ call.op \in {"try_to_datetime", "try_to_numeric"}

C6_WitnessFalse ==
    /\ EagerTry /\ call.op = "try_to_numeric" /\ Len(input.cols) = 2
    /\ ColumnOf(input, call.col).dtype = "String"
    /\ ~out.success
    /\ \E r \in 1..Height(input) :
         ~IsNull(ColumnOf(input, call.col).vals[r])
         /\ ParseAs(call.dtype, ReplaceAllCommas(ColumnOf(input, call.col).vals[r].s)).ok

Alphabet == <<"_", "a", "b", "c", "l", "n", "o", "t">>

CharOrd(ch) == CHOOSE i \in DOMAIN Alphabet : Alphabet[i] = ch

RECURSIVE NameLess(_, _)
NameLess(a, b) ==
    IF b = <<>> THEN FALSE
    ELSE IF a = <<>> THEN TRUE
    ELSE IF a[1] # b[1] THEN CharOrd(a[1]) < CharOrd(b[1])
    ELSE NameLess(Tail(a), Tail(b))

SameColumns(df, of) ==
    /\ Len(df.cols) = Len(of.cols)
    /\ \A i \in DOMAIN of.cols : \E j \in DOMAIN df.cols : df.cols[j] = of.cols[i]

SortReturned == Done("sort_columns_by_null_count") /\ Realised.exc = "none"

\* C7 as claimed: the columns come back with their data, ascending by null
\* count, columns of equal null count ascending by name.
C7_SortedWithNameTieBreak ==
    SortReturned =>
        /\ SameColumns(Realised.df, input)
        /\ \A i, j \in DOMAIN Realised.df.cols : i < j =>
             \/ NullCount(Realised.df.cols[i]) < NullCount(Realised.df.cols[j])
             \/ /\ NullCount(Realised.df.cols[i]) = NullCount(Realised.df.cols[j])
                /\ NameLess(Realised.df.cols[i].name, Realised.df.cols[j].name)

\* C7 as amended: the columns come back with their data and their null
\* counts do not decrease from left to right; nothing is said of the order
\* of columns of equal null count.
C7_SortedByNullCount ==
    Done("sort_columns_by_null_count") =>
        /\ Realised.exc = "none"
        /\ SameColumns(Realised.df, input)
        /\ \A i, j \in DOMAIN Realised.df.cols : i < j =>
             NullCount(Realised.df.cols[i]) <= NullCount(Realised.df.cols[j])

\* A sort that moved a column with more nulls behind one with fewer.
C7_Witness ==
    /\ SortReturned
    /\ Len(input.cols) = 2
    /\ NullCount(input.cols[1]) > NullCount(input.cols[2])
    /\ Realised.df.cols = <<input.cols[2], input.cols[1]>>

\* ---- C8 ----------------------------------------------------------------

\* What the same call returns on the DataFrame of the same table.
EagerOutcomes ==
    CASE call.op = "utf8_promotion" -> {Returned(utf8_promotion(Eager(input)))}
      [] call.op = "semicircle_to_degrees" -> {Returned(semicircle_to_degrees(Eager(input)))}
      [] call.op = "try_convert_dtypes_to_float_if_possible" ->
            {Returned(try_convert_dtypes_to_float_if_possible(Eager(input)))}
      [] call.op = "try_to_datetime" -> {try_to_datetime(Eager(input), call.col)}
      [] call.op = "try_to_numeric" -> {try_to_numeric(Eager(input), call.col, call.dtype)}
      [] call.op = "sort_columns_by_null_count" ->
            {Returned(sort_columns_by_null_count(Eager(input), p)) :
                p \in SortedOrders(NullCounts(Eager(input)))}

\* C8: a call on a LazyFrame, once realised, gives the table, the success
\* flag and the error or no error that the call on the DataFrame gives.
C8_LazyAgreesWithEager ==
    (pc = "done" /\ call.kind = "lazy") =>
        \E e \in EagerOutcomes :
            /\ out.success = e.success
            /\ Realised.exc = e.exc
            /\ Realised.exc = "none" => Realised.df = e.frame.df

\* ---- C9 ----------------------------------------------------------------

\* w = v * 180 / 2^31, stated as w * 2^31 = v * 180.
IsDegreesOf(w, v) ==
    IF IsNull(v) THEN IsNull(w)
    ELSE /\ ~IsNull(w)
         /\ Norm(w.n * v.d, 1, w.e + 31) = Norm(v.n * 180 * w.d, 1, v.e)

\* C9: semicircle_to_degrees replaces every value v of every column whose
\* name contains _lat or _lon by v * 180 / 2^31, so that 2^31 becomes 180,
\* and returns every other column as it was: name, dtype, values, position.
C9_SemicircleToDegrees ==
    (Done("semicircle_to_degrees") /\ Realised.exc = "none") =>
        /\ Len(Realised.df.cols) = Len(input.cols)
        /\ \A i \in DOMAIN input.cols :
             IF IsSemicircleName(input.cols[i].name)
             THEN /\ Realised.df.cols[i].name = input.cols[i].name
                  /\ \A r \in 1..Height(input) :
                       /\ IsDegreesOf(Realised.df.cols[i].vals[r], input.cols[i].vals[r])
                       /\ input.cols[i].vals[r] = Semicircle =>
                            Realised.df.cols[i].vals[r] = Norm(180, 1, 0)
             ELSE Realised.df.cols[i] = input.cols[i]

\* A column named b_lat holding 2^31 was scaled beside the column c, which
\* was not.
C9_Witness ==
    /\ Done("semicircle_to_degrees") /\ Realised.exc = "none"
    /\ \E i, j \in DOMAIN input.cols :
         /\ IsSemicircleName(input.cols[i].name)
         /\ Semicircle \in Range(input.cols[i].vals)
         /\ Norm(180, 1, 0) \in Range(Realised.df.cols[i].vals)
         /\ ~IsSemicircleName(input.cols[j].name)
         /\ ~AllNullColumn(input.cols[j])

\* ---- C10 ---------------------------------------------------------------

\* C10: a table magic returns has no row in which every value is null and
\* no column in which every value is null.
C10_MagicLeavesNoAllNull ==
    (Done("magic") /\ out.exc = "none") =>
        /\ \A r \in 1..Height(Result) : ~AllNullRow(Result, r)
        /\ \A i \in DOMAIN Result.cols : ~AllNullColumn(Result.cols[i])

====
